---- MODULE Spec2Model ----
(***************************************************************************)
(* Model of docs/projects/burglarAlarm/burglarAlarm.py: a MicroPython      *)
(* script with two PIR sensors, two zone LEDs and a shared buzzer.         *)
(*                                                                         *)
(* The main program is the heartbeat loop (lines 34-37).  pir_handler      *)
(* (lines 14-28) is registered with Pin.irq(trigger=IRQ_RISING) and the    *)
(* default hard=False (lines 30-31): each rising edge schedules one call   *)
(* of the handler; a scheduled call runs in the main program's context,    *)
(* between two of its statements or inside its sleep, and the scheduler is *)
(* locked while a scheduled call runs.                                     *)
(***************************************************************************)
EXTENDS Integers, Sequences, FiniteSets, TLC

\* Bounds of the model (not program constants).
MaxEdges == 3
MaxBeats == 2

\* range(10) of the pulse loops.
PulseCount == 10

Zone == {"bedroom", "living_room"}

Other(z) == IF z = "bedroom" THEN "living_room" ELSE "bedroom"

VARIABLES
    snsr,      \* snsr[z]: level of the zone's sensor input
    led,       \* led[z]: level of the zone's indicator output
    buzzer,    \* level of the buzzer output
    queue,     \* scheduled handler calls, oldest first (the pin of each)
    frames,    \* activation records of pir_handler, innermost last
    last,      \* the activation record of the call that returned last
    mpc,       \* position of the main loop: "tb", "tl" or "sleep"
    log,       \* lines printed so far
    led0,      \* level of each indicator when the script starts
    buzzer0,   \* level of the buzzer when the script starts
    iter,      \* completed iterations of the heartbeat loop
    hbT,       \* hbT[z]: toggles of led[z] issued by the heartbeat loop
    hT,        \* hT[z]: toggles of led[z] issued by pir_handler
    edges      \* rising edges seen so far

vars == <<snsr, led, buzzer, queue, frames, last, mpc, log, led0, buzzer0,
          iter, hbT, hT, edges>>

env == <<snsr, queue, edges>>
outs == <<led, buzzer, log>>
main == <<mpc, iter, hbT>>

\* Pin.toggle(): the output level is inverted.
ToggleAsOn(level) == TRUE
Toggle(level) == ~level

\* The indicator the branch taken for `pin` toggles.
IndicatorOfSwapped(pin) == "bedroom"
IndicatorOf(pin) == IF pin = "bedroom" THEN "bedroom" ELSE "living_room"

\* The line the branch taken for `pin` prints.
MessageOf(pin) ==
    IF pin = "bedroom" THEN "ALARM! Motion detected in bedroom!"
    ELSE "ALARM! Motion detected in living room!"

\* An activation record of pir_handler: its argument `pin`, its position
\* `pc`, the loop variable `i`, the result `value` of pin.value(), what the
\* call has done so far (toggles of each indicator and of the buzzer, lines
\* printed, pulse pauses slept), the position `resume` of the main loop it
\* interrupted and the output levels it found when it started.
NewCall(pin, at, leds, buz) ==
    [pin |-> pin, pc |-> "debounce", i |-> 0, value |-> FALSE,
     leds |-> [z \in Zone |-> 0], buzs |-> 0, msgs |-> <<>>, pauses |-> 0,
     resume |-> at, startLed |-> leds, startBuz |-> buz]

NoCall == [NewCall("none", "none", [z \in Zone |-> FALSE], FALSE)
             EXCEPT !.pc = "none"]

Top == frames[Len(frames)]

Pop == SubSeq(frames, 1, Len(frames) - 1)

SetTop(f) == [frames EXCEPT ![Len(frames)] = f]

\* for i in range(10): the loop is over after the step with i = 9.
ExhaustedEarly(i) == i + 2 >= PulseCount
ExhaustedLate(i) == i >= PulseCount
Exhausted(i) == i + 1 >= PulseCount

\* A scheduled call is started only while no scheduled call is running.
SchedLockedNever == FALSE
SchedLocked == frames # <<>>

\* The main loop runs only while no handler call is in progress.
MainRunnableAlways == TRUE
MainRunnable == frames = <<>>

\* The outputs are created without an initial value (lines 8-12): each keeps
\* the level the pin had before, which the script does not determine.
Init ==
    /\ snsr = [z \in Zone |-> FALSE]
    /\ led0 \in [Zone -> BOOLEAN]
    /\ buzzer0 \in BOOLEAN
    /\ led = led0
    /\ buzzer = buzzer0
    /\ queue = <<>>
    /\ frames = <<>>
    /\ last = NoCall
    /\ mpc = "tb"
    /\ log = <<>>
    /\ iter = 0
    /\ hbT = [z \in Zone |-> 0]
    /\ hT = [z \in Zone |-> 0]
    /\ edges = 0

\* The start after a power-on reset: every output is low.
PowerOnInit ==
    /\ Init
    /\ led0 = [z \in Zone |-> FALSE]
    /\ buzzer0 = FALSE

\* A sensor input goes high: IRQ_RISING schedules one call of pir_handler.
SensorRise(z) ==
    /\ ~snsr[z]
    /\ edges < MaxEdges
    /\ snsr' = [snsr EXCEPT ![z] = TRUE]
    /\ queue' = Append(queue, z)
    /\ edges' = edges + 1
    /\ UNCHANGED <<outs, frames, last, main, led0, buzzer0, hT>>

\* Variant of SensorFall: the falling edge schedules a call as well, as with
\* trigger=IRQ_RISING | IRQ_FALLING.
SensorFallTriggers(z) ==
    /\ snsr[z]
    /\ edges < MaxEdges
    /\ snsr' = [snsr EXCEPT ![z] = FALSE]
    /\ queue' = Append(queue, z)
    /\ edges' = edges + 1
    /\ UNCHANGED <<outs, frames, last, main, led0, buzzer0, hT>>

\* A sensor input goes low: no interrupt.
SensorFall(z) ==
    /\ snsr[z]
    /\ snsr' = [snsr EXCEPT ![z] = FALSE]
    /\ UNCHANGED <<queue, edges, outs, frames, last, main, led0, buzzer0, hT>>

\* The oldest scheduled call starts: pir_handler(pin) enters its debounce sleep.
Dispatch ==
    /\ queue # <<>>
    /\ ~SchedLocked
    /\ frames' = Append(frames, NewCall(Head(queue), mpc, led, buzzer))
    /\ queue' = Tail(queue)
    /\ UNCHANGED <<snsr, edges, outs, last, main, led0, buzzer0, hT>>

\* Variant of Confirm: the test is on the bound method `pin.value`, which is
\* always true, so the level that was read does not matter.
ConfirmNoRead ==
    /\ frames # <<>>
    /\ Top.pc = "debounce"
    /\ frames' = SetTop([Top EXCEPT !.pc = "print", !.value = snsr[Top.pin]])
    /\ UNCHANGED <<env, outs, last, main, led0, buzzer0, hT>>

\* sleep_ms(100) is over and pin.value() is high.
Confirm ==
    /\ frames # <<>>
    /\ Top.pc = "debounce"
    /\ snsr[Top.pin]
    /\ frames' = SetTop([Top EXCEPT !.pc = "print", !.value = snsr[Top.pin]])
    /\ UNCHANGED <<env, outs, last, main, led0, buzzer0, hT>>

\* Variant of Reject: the handler waits for its pin to read high instead of
\* returning.
RejectRetry ==
    /\ frames # <<>>
    /\ Top.pc = "debounce"
    /\ ~snsr[Top.pin]
    /\ UNCHANGED vars

\* sleep_ms(100) is over and pin.value() is low: the handler returns.
Reject ==
    /\ frames # <<>>
    /\ Top.pc = "debounce"
    /\ ~snsr[Top.pin]
    /\ last' = [Top EXCEPT !.pc = "done", !.value = snsr[Top.pin]]
    /\ frames' = Pop
    /\ UNCHANGED <<env, outs, main, led0, buzzer0, hT>>

\* Variant of Announce: the branch goes to its loop without printing.
AnnounceNothing ==
    /\ frames # <<>>
    /\ Top.pc = "print"
    /\ frames' = SetTop([Top EXCEPT !.pc = "led", !.i = 0])
    /\ UNCHANGED <<env, outs, last, main, led0, buzzer0, hT>>

\* print("ALARM! ...") of the branch of the pin; the loop starts with i = 0.
Announce ==
    /\ frames # <<>>
    /\ Top.pc = "print"
    /\ log' = Append(log, MessageOf(Top.pin))
    /\ frames' = SetTop([Top EXCEPT !.pc = "led", !.i = 0,
                                    !.msgs = Append(@, MessageOf(Top.pin))])
    /\ UNCHANGED <<env, led, buzzer, last, main, led0, buzzer0, hT>>

\* led_<zone>.toggle()
ToggleLed ==
    /\ frames # <<>>
    /\ Top.pc = "led"
    /\ led' = [led EXCEPT ![IndicatorOf(Top.pin)] = Toggle(@)]
    /\ hT' = [hT EXCEPT ![IndicatorOf(Top.pin)] = @ + 1]
    /\ frames' = SetTop([Top EXCEPT !.pc = "buz",
                                    !.leds[IndicatorOf(Top.pin)] = @ + 1])
    /\ UNCHANGED <<env, buzzer, log, last, main, led0, buzzer0>>

\* Variant of ToggleBuzzer: the statement is missing from the loop body.
ToggleBuzzerMissing ==
    /\ frames # <<>>
    /\ Top.pc = "buz"
    /\ frames' = SetTop([Top EXCEPT !.pc = "pause"])
    /\ UNCHANGED <<env, outs, last, main, led0, buzzer0, hT>>

\* buzzer.toggle()
ToggleBuzzer ==
    /\ frames # <<>>
    /\ Top.pc = "buz"
    /\ buzzer' = Toggle(buzzer)
    /\ frames' = SetTop([Top EXCEPT !.pc = "pause", !.buzs = @ + 1])
    /\ UNCHANGED <<env, led, log, last, main, led0, buzzer0, hT>>

\* sleep_ms(100) of a pulse is over and range(10) yields the next i.
NextPulse ==
    /\ frames # <<>>
    /\ Top.pc = "pause"
    /\ ~Exhausted(Top.i)
    /\ frames' = SetTop([Top EXCEPT !.pc = "led", !.i = @ + 1,
                                    !.pauses = @ + 1])
    /\ UNCHANGED <<env, outs, last, main, led0, buzzer0, hT>>

\* Variant of Finish: the body of the handler is wrapped in an endless loop,
\* so the call starts over instead of returning.
FinishRestart ==
    /\ frames # <<>>
    /\ Top.pc = "pause"
    /\ Exhausted(Top.i)
    /\ frames' = SetTop(NewCall(Top.pin, Top.resume, led, buzzer))
    /\ UNCHANGED <<env, outs, last, main, led0, buzzer0, hT>>

\* sleep_ms(100) of the last pulse is over: range(10) is exhausted, return.
Finish ==
    /\ frames # <<>>
    /\ Top.pc = "pause"
    /\ Exhausted(Top.i)
    /\ last' = [Top EXCEPT !.pc = "done", !.pauses = @ + 1]
    /\ frames' = Pop
    /\ UNCHANGED <<env, outs, main, led0, buzzer0, hT>>

\* led_bedroom.toggle() of the heartbeat loop.
HbToggleBedroom ==
    /\ MainRunnable
    /\ mpc = "tb"
    /\ iter < MaxBeats
    /\ led' = [led EXCEPT !["bedroom"] = Toggle(@)]
    /\ hbT' = [hbT EXCEPT !["bedroom"] = @ + 1]
    /\ mpc' = "tl"
    /\ UNCHANGED <<env, buzzer, log, frames, last, iter, led0, buzzer0, hT>>

\* Variant of HbToggleLiving: the loop toggles led_bedroom a second time.
HbToggleBedroomAgain ==
    /\ MainRunnable
    /\ mpc = "tl"
    /\ led' = [led EXCEPT !["bedroom"] = Toggle(@)]
    /\ hbT' = [hbT EXCEPT !["bedroom"] = @ + 1]
    /\ mpc' = "sleep"
    /\ UNCHANGED <<env, buzzer, log, frames, last, iter, led0, buzzer0, hT>>

\* led_living_room.toggle() of the heartbeat loop.
HbToggleLiving ==
    /\ MainRunnable
    /\ mpc = "tl"
    /\ led' = [led EXCEPT !["living_room"] = Toggle(@)]
    /\ hbT' = [hbT EXCEPT !["living_room"] = @ + 1]
    /\ mpc' = "sleep"
    /\ UNCHANGED <<env, buzzer, log, frames, last, iter, led0, buzzer0, hT>>

\* Variant of HbSleep: the loop also toggles the buzzer before it sleeps.
HbSleepBuzzing ==
    /\ MainRunnable
    /\ mpc = "sleep"
    /\ buzzer' = Toggle(buzzer)
    /\ iter' = iter + 1
    /\ mpc' = "tb"
    /\ UNCHANGED <<env, led, log, frames, last, hbT, led0, buzzer0, hT>>

\* time.sleep(1) is over; the loop goes round.
HbSleep ==
    /\ MainRunnable
    /\ mpc = "sleep"
    /\ iter' = iter + 1
    /\ mpc' = "tb"
    /\ UNCHANGED <<env, outs, frames, last, hbT, led0, buzzer0, hT>>

Handler ==
    \/ Dispatch
    \/ Confirm
    \/ Reject
    \/ Announce
    \/ ToggleLed
    \/ ToggleBuzzer
    \/ NextPulse
    \/ Finish

Heartbeat ==
    \/ HbToggleBedroom
    \/ HbToggleLiving
    \/ HbSleep

Sensors ==
    \/ \E z \in Zone : SensorRise(z)
    \/ \E z \in Zone : SensorFall(z)

Next == Handler \/ Heartbeat \/ Sensors

Spec == Init /\ [][Next]_vars

PowerOnSpec == PowerOnInit /\ [][Next]_vars

----------------------------------------------------------------------------
(***************************************************************************)
(* The script without the history of its run.  The counters iter, hbT, hT  *)
(* and edges and the log only record what has happened; the actions below  *)
(* are the actions above that write them, with these variables left as     *)
(* they are, so that a run of any length stays within finitely many        *)
(* states.  The other actions are used as they are.                        *)
(***************************************************************************)
\* Calls that can wait in the scheduler's queue in the run without history;
\* a rising edge that finds the queue full schedules nothing.
SchedDepth == 2

hist == <<log, led0, buzzer0, iter, hbT, hT, edges>>

\* SensorRise, for a queue of SchedDepth places.
LiveSensorRise(z) ==
    /\ ~snsr[z]
    /\ snsr' = [snsr EXCEPT ![z] = TRUE]
    /\ queue' = IF Len(queue) < SchedDepth THEN Append(queue, z) ELSE queue
    /\ UNCHANGED <<led, buzzer, frames, last, mpc, hist>>

\* Announce.
LiveAnnounce ==
    /\ frames # <<>>
    /\ Top.pc = "print"
    /\ frames' = SetTop([Top EXCEPT !.pc = "led", !.i = 0,
                                    !.msgs = Append(@, MessageOf(Top.pin))])
    /\ UNCHANGED <<snsr, queue, led, buzzer, last, mpc, hist>>

\* ToggleLed.
LiveToggleLed ==
    /\ frames # <<>>
    /\ Top.pc = "led"
    /\ led' = [led EXCEPT ![IndicatorOf(Top.pin)] = Toggle(@)]
    /\ frames' = SetTop([Top EXCEPT !.pc = "buz",
                                    !.leds[IndicatorOf(Top.pin)] = @ + 1])
    /\ UNCHANGED <<snsr, queue, buzzer, last, mpc, hist>>

\* HbToggleBedroom.
LiveHbToggleBedroom ==
    /\ MainRunnable
    /\ mpc = "tb"
    /\ led' = [led EXCEPT !["bedroom"] = Toggle(@)]
    /\ mpc' = "tl"
    /\ UNCHANGED <<snsr, queue, buzzer, frames, last, hist>>

\* HbToggleLiving.
LiveHbToggleLiving ==
    /\ MainRunnable
    /\ mpc = "tl"
    /\ led' = [led EXCEPT !["living_room"] = Toggle(@)]
    /\ mpc' = "sleep"
    /\ UNCHANGED <<snsr, queue, buzzer, frames, last, hist>>

\* HbSleep.
LiveHbSleep ==
    /\ MainRunnable
    /\ mpc = "sleep"
    /\ mpc' = "tb"
    /\ UNCHANGED <<snsr, queue, led, buzzer, frames, last, hist>>

\* The steps of a call of pir_handler that has started.
LiveHandlerStep ==
    \/ Confirm
    \/ Reject
    \/ LiveAnnounce
    \/ LiveToggleLed
    \/ ToggleBuzzer
    \/ NextPulse
    \/ Finish

LiveHeartbeat ==
    \/ LiveHbToggleBedroom
    \/ LiveHbToggleLiving
    \/ LiveHbSleep

LiveSensors ==
    \/ \E z \in Zone : LiveSensorRise(z)
    \/ \E z \in Zone : SensorFall(z)

LiveNext == Dispatch \/ LiveHandlerStep \/ LiveHeartbeat \/ LiveSensors

\* A statement or a sleep of a started call always completes (weak fairness
\* of the call's steps).  One scheduled call at most is run at each point
\* where the main program can be interrupted, and the loop's sleep ends at its
\* deadline, so the loop is not held up for ever by calls that start again
\* and again (strong fairness of the loop's steps).  A sensor need never
\* change, and no fairness is asked of the start of a scheduled call.
LiveSpec ==
    /\ PowerOnInit
    /\ [][LiveNext]_vars
    /\ WF_vars(LiveHandlerStep)
    /\ SF_vars(LiveHeartbeat)

TypeOK ==
    /\ snsr \in [Zone -> BOOLEAN]
    /\ led \in [Zone -> BOOLEAN]
    /\ buzzer \in BOOLEAN
    /\ mpc \in {"tb", "tl", "sleep"}
    /\ iter \in 0..MaxBeats
    /\ edges \in 0..MaxEdges
    /\ Len(queue) <= MaxEdges

Odd(n) == n % 2 = 1

\* The level of an output that started at `level` and was toggled n times.
After(level, n) == IF Odd(n) THEN ~level ELSE level

\* The alert line that names zone z.
AlertLine(z) ==
    IF z = "bedroom" THEN "ALARM! Motion detected in bedroom!"
    ELSE IF z = "living_room" THEN "ALARM! Motion detected in living room!"
    ELSE "none"

\* A call of pir_handler that has returned after reading its pin high.
ConfirmedDone == last.pc = "done" /\ last.value

\* A call of pir_handler that has returned after reading its pin low.
RejectedDone == last.pc = "done" /\ ~last.value

\* The innermost call is at the pause that ends a pulse step.
AtPause == frames # <<>> /\ Top.pc = "pause"

----------------------------------------------------------------------------
\* C1 (as stated): a call that read its pin high has, when it returns,
\* printed exactly the one message of its zone and toggled the zone's
\* indicator 20 times and the buzzer 20 times.
C1_TwentyToggles ==
    ConfirmedDone =>
        /\ last.msgs = <<AlertLine(last.pin)>>
        /\ last.leds[last.pin] = 20
        /\ last.buzs = 20

\* C1 (amended): a call that read its pin high has, when it returns, printed
\* exactly the one message of its zone and toggled the zone's indicator 10
\* times and the buzzer 10 times (5 full on/off cycles).
C1_TenToggles ==
    ConfirmedDone =>
        /\ last.msgs = <<AlertLine(last.pin)>>
        /\ last.leds[last.pin] = 10
        /\ last.buzs = 10

\* Both zones have had a confirmed alert, and the last call was one.
C1_Witness ==
    /\ ConfirmedDone
    /\ Len(log) = 2
    /\ log[1] # log[2]
    /\ last.msgs = <<log[2]>>

\* C2: a confirmed alert runs exactly 10 pulse steps i = 0..9; in step i the
\* indicator is toggled first (i+1 indicator toggles, i buzzer toggles, no
\* pause in between), then the buzzer (i+1 each), then comes the pause of the
\* step; at the return 10 toggles of each and 10 pauses have happened.
C2_TenPulseSteps ==
    /\ \A k \in 1..Len(frames) :
         LET f == frames[k] IN
         /\ f.pc \in {"led", "buz", "pause"} => f.value /\ f.i \in 0..9
         /\ f.pc = "led" =>
              f.leds[f.pin] = f.i /\ f.buzs = f.i /\ f.pauses = f.i
         /\ f.pc = "buz" =>
              f.leds[f.pin] = f.i + 1 /\ f.buzs = f.i /\ f.pauses = f.i
         /\ f.pc = "pause" =>
              f.leds[f.pin] = f.i + 1 /\ f.buzs = f.i + 1 /\ f.pauses = f.i
    /\ ConfirmedDone =>
         /\ last.i = 9
         /\ last.pauses = 10
         /\ last.leds[last.pin] = last.pauses
         /\ last.buzs = last.pauses

\* A bedroom alert has returned after its tenth pause.
C2_Witness ==
    /\ ConfirmedDone
    /\ last.pin = "bedroom"
    /\ last.pauses = 10
    /\ frames = <<>>

\* C3: a step of a call that is at its re-read while its pin is low is the
\* return of the call; the call has printed nothing and toggled nothing, and
\* both indicators, the buzzer and the log are as they were when it started.
C3_RejectedNoEffect ==
    [][(/\ frames # <<>>
        /\ Top.pc = "debounce"
        /\ ~snsr[Top.pin]
        /\ frames' # frames)
       => /\ frames' = Pop
          /\ last'.pin = Top.pin
          /\ last'.msgs = <<>>
          /\ last'.buzs = 0
          /\ \A z \in Zone : last'.leds[z] = 0
          /\ led' = Top.startLed
          /\ buzzer' = Top.startBuz
          /\ log' = log]_vars

\* A call was rejected while the other sensor was high.
C3_Witness ==
    /\ RejectedDone
    /\ ~snsr[last.pin]
    /\ snsr[Other(last.pin)]
    /\ frames = <<>>

\* C4: no step taken while a call for one zone is in progress changes the
\* other zone's indicator; and the buzzer changes only as the second write of
\* a pulse step, the (i+1)-th change in step i, whichever the zone.
C4_ZoneIsolation ==
    [][/\ frames # <<>> => led'[Other(Top.pin)] = led[Other(Top.pin)]
       /\ Len(frames') < Len(frames) => Top.leds[Other(Top.pin)] = 0
       /\ buzzer' # buzzer =>
            /\ frames # <<>>
            /\ Top.pc = "buz"
            /\ Top.buzs = Top.i
            /\ Top.leds[Top.pin] = Top.i + 1]_vars

\* A living-room alert has returned after a bedroom alert, without a toggle
\* of the bedroom indicator.
C4_Witness ==
    /\ ConfirmedDone
    /\ last.pin = "living_room"
    /\ last.leds["bedroom"] = 0
    /\ last.leds["living_room"] = 10
    /\ Len(log) = 2
    /\ log[1] = AlertLine("bedroom")

\* C5 (as stated): at every pause of a pulse sequence the zone's indicator
\* is at the level of the buzzer.
C5_InPhaseAtPause == AtPause => led[Top.pin] = buzzer

\* C5 (amended): at every pause of a pulse sequence the zone's indicator and
\* the buzzer have been toggled equally often by the call, so they are at the
\* same level exactly if they were when the call started.
C5_PhaseKept ==
    AtPause =>
        /\ Top.leds[Top.pin] = Top.buzs
        /\ (led[Top.pin] = buzzer) <=> (Top.startLed[Top.pin] = Top.startBuz)

\* A pause of an alert that started after one heartbeat toggle of the zone's
\* indicator: the indicator and the buzzer are at opposite levels.
C5_Witness ==
    /\ AtPause
    /\ hbT[Top.pin] = 1
    /\ Top.startLed[Top.pin] # Top.startBuz
    /\ led[Top.pin] # buzzer

\* C6: the heartbeat loop has toggled the bedroom indicator once more than
\* it has completed iterations when it is past its first toggle, the
\* living-room indicator once more when it is past its second, and otherwise
\* exactly once per completed iteration; an indicator no handler has toggled
\* is at its initial level flipped once per such toggle.
C6_HeartbeatOncePerInterval ==
    /\ hbT["bedroom"] = iter + (IF mpc \in {"tl", "sleep"} THEN 1 ELSE 0)
    /\ hbT["living_room"] = iter + (IF mpc = "sleep" THEN 1 ELSE 0)
    /\ \A z \in Zone : hT[z] = 0 => led[z] = After(led0[z], hbT[z])

\* Two intervals have gone by without any alert.
C6_Witness ==
    /\ iter = 2
    /\ mpc = "tb"
    /\ edges = 0
    /\ led = led0

\* C7: a step of the heartbeat loop leaves the buzzer as it is, and the
\* buzzer changes only in the buzzer write of a call that read its pin high.
C7_BuzzerOnlyByHandler ==
    [][/\ (mpc' # mpc \/ iter' # iter \/ hbT' # hbT) => buzzer' = buzzer
       /\ buzzer' # buzzer =>
            /\ frames # <<>>
            /\ Top.pc = "buz"
            /\ Top.value
            /\ Len(frames') = Len(frames)
            /\ frames'[Len(frames)].buzs = Top.buzs + 1]_vars

\* The buzzer is off its initial level in the middle of an alert that
\* interrupted the heartbeat loop after a full iteration.
C7_Witness ==
    /\ buzzer # buzzer0
    /\ frames # <<>>
    /\ Top.value
    /\ iter >= 1

\* C8: at most one call of pir_handler is in progress; a call starts only
\* when none is.
C8_NotReentrant == Len(frames) <= 1

\* The sensor of the zone whose alert is pulsing has fired again, and the
\* other sensor too: both calls wait.
C8_Witness ==
    /\ AtPause
    /\ Len(queue) = 2
    /\ Top.pin \in {queue[1], queue[2]}
    /\ Other(Top.pin) \in {queue[1], queue[2]}

\* C9: while a call is in progress the heartbeat loop takes no step; when
\* the call returns the loop is where the call interrupted it; and the loop
\* moves only from one of its statements to the next, with that statement's
\* one toggle.
C9_PreemptAndResume ==
    [][/\ frames # <<>> => UNCHANGED <<mpc, iter, hbT>>
       /\ Len(frames') < Len(frames) => mpc' = Top.resume
       /\ mpc' # mpc =>
            \/ /\ mpc = "tb" /\ mpc' = "tl"
               /\ hbT' = [hbT EXCEPT !["bedroom"] = @ + 1]
               /\ iter' = iter
            \/ /\ mpc = "tl" /\ mpc' = "sleep"
               /\ hbT' = [hbT EXCEPT !["living_room"] = @ + 1]
               /\ iter' = iter
            \/ /\ mpc = "sleep" /\ mpc' = "tb"
               /\ hbT' = hbT
               /\ iter' = iter + 1]_vars

\* An alert interrupted the first iteration between its two toggles and has
\* returned; the living-room toggle of that iteration has since happened.
C9_Witness ==
    /\ ConfirmedDone
    /\ frames = <<>>
    /\ last.resume = "tl"
    /\ iter = 0
    /\ mpc = "sleep"
    /\ hbT["living_room"] = 1
    /\ hbT["bedroom"] = 1

\* C10: each indicator is at its initial level flipped once per toggle issued
\* on it by the heartbeat loop and by the handler together.
C10_NoToggleLost ==
    \A z \in Zone : led[z] = After(led0[z], hbT[z] + hT[z])

\* An alert that interrupted the loop between its two toggles is in the
\* middle of its sequence, after an odd number of toggles.
C10_Witness ==
    /\ frames # <<>>
    /\ Top.resume = "tl"
    /\ hT[Top.pin] = 3
    /\ hbT[Top.pin] >= 1

\* C13: a call prints nothing and toggles nothing before its re-read; after
\* a high re-read it first prints the line of its zone, once, with no toggle
\* done yet; every toggle of the call comes after that line, and the call
\* prints no further line during its pulses.  A line is printed only by a
\* call that is past its debounce sleep and has read its pin high.
C13_MessageBeforePulses ==
    /\ [](\A k \in 1..Len(frames) :
            LET f == frames[k]
                done == f.leds[f.pin] + f.buzs + f.pauses
            IN /\ f.pc = "debounce" => ~f.value /\ f.msgs = <<>> /\ done = 0
               /\ f.pc = "print" => f.value /\ f.msgs = <<>> /\ done = 0
               /\ f.pc \in {"led", "buz", "pause"} =>
                    f.value /\ f.msgs = <<AlertLine(f.pin)>>
               /\ done > 0 => f.msgs = <<AlertLine(f.pin)>>)
    /\ [](last.pc = "done" =>
            last.msgs = IF last.value THEN <<AlertLine(last.pin)>> ELSE <<>>)
    /\ [][log' # log =>
            /\ frames # <<>>
            /\ Top.pc = "print"
            /\ Top.value
            /\ log' = Append(log, AlertLine(Top.pin))
            /\ led' = led
            /\ buzzer' = buzzer]_vars

\* The ninth pulse step of an alert is at its buzzer write: one line has been
\* printed, by this call.
C13_Witness ==
    /\ frames # <<>>
    /\ Top.pc = "buz"
    /\ Top.i = 8
    /\ log = <<AlertLine(Top.pin)>>
    /\ Top.msgs = log

\* C14: a call is scheduled only in a step in which a sensor goes from low
\* to high, and it is a call for that sensor; a call starts only as the
\* oldest scheduled call; so no step in which a sensor stays high or goes low
\* schedules a call.
C14_RisingEdgeOnly ==
    [][/\ queue' # queue =>
            \/ \E z \in Zone : /\ ~snsr[z]
                               /\ snsr'[z]
                               /\ queue' = Append(queue, z)
                               /\ edges' = edges + 1
            \/ /\ queue # <<>>
               /\ queue' = Tail(queue)
               /\ frames' = Append(frames, frames'[Len(frames')])
               /\ frames'[Len(frames')].pin = Head(queue)
               /\ frames'[Len(frames')].pc = "debounce"
               /\ snsr' = snsr
       /\ Len(frames') > Len(frames) => queue # <<>> /\ queue' = Tail(queue)
       /\ (\E z \in Zone : snsr[z] /\ ~snsr'[z]) => queue' = queue
       /\ edges' # edges => \E z \in Zone : ~snsr[z] /\ snsr'[z]]_vars

\* A sensor rose once, its alert has completed and the sensor is still high:
\* no call is scheduled or in progress.
C14_Witness ==
    /\ ConfirmedDone
    /\ snsr[last.pin]
    /\ edges = 1
    /\ queue = <<>>
    /\ frames = <<>>
    /\ iter >= 1

\* C15: whenever no call is in progress the buzzer is at the level it had
\* when the script started (off if it started off); the call that returned
\* last toggled it an even number of times and left it at the level it found.
C15_BuzzerRestsAtInitial ==
    frames = <<>> =>
        /\ buzzer = buzzer0
        /\ last.pc = "done" => ~Odd(last.buzs) /\ buzzer = last.startBuz

\* Alerts of both zones have completed.
C15_Witness ==
    /\ frames = <<>>
    /\ ConfirmedDone
    /\ last.buzs = 10
    /\ Len(log) = 2
    /\ log[1] # log[2]
    /\ buzzer = buzzer0

\* C16: the call that returned last toggled each indicator an even number of
\* times; so whenever no call is in progress each indicator is at its initial
\* level flipped once per heartbeat toggle, at the heartbeat's wait the level
\* follows from the completed iterations alone, and the two indicators are
\* equal there if they started equal.
C16_BlinkPhaseKept ==
    /\ last.pc = "done" => \A z \in Zone : ~Odd(last.leds[z])
    /\ frames = <<>> =>
         /\ \A z \in Zone : ~Odd(hT[z]) /\ led[z] = After(led0[z], hbT[z])
         /\ mpc = "sleep" =>
              /\ \A z \in Zone : led[z] = After(led0[z], iter + 1)
              /\ led0["bedroom"] = led0["living_room"]
                   => led["bedroom"] = led["living_room"]

\* The loop is at its wait in its second iteration, after a confirmed and a
\* rejected call.
C16_Witness ==
    /\ frames = <<>>
    /\ mpc = "sleep"
    /\ iter = 1
    /\ RejectedDone
    /\ Len(log) = 1
    /\ hT[IF log[1] = AlertLine("bedroom") THEN "bedroom" ELSE "living_room"] = 10

\* C11: a call of pir_handler that has started returns, whatever the sensors
\* do meanwhile; it returns without a pulse pause if it read its pin low and
\* after its 10 pulse pauses if it read it high.
C11_HandlerTerminates ==
    /\ (frames # <<>>) ~> (frames = <<>>)
    /\ [](last.pc = "done" => last.pauses = IF last.value THEN 10 ELSE 0)

\* An alert has returned although its sensor fell during the pulses and the
\* other sensor's call is waiting.
C11_Witness ==
    /\ frames = <<>>
    /\ ConfirmedDone
    /\ last.pauses = 10
    /\ ~snsr[last.pin]
    /\ queue = <<Other(last.pin)>>

\* C12: the heartbeat loop toggles the bedroom indicator infinitely often and
\* the living-room indicator infinitely often, whatever the sensors do and
\* however many calls are scheduled.
C12_HeartbeatForever ==
    /\ []<><<mpc = "tb" /\ mpc' = "tl"
             /\ led'["bedroom"] # led["bedroom"]>>_vars
    /\ []<><<mpc = "tl" /\ mpc' = "sleep"
             /\ led'["living_room"] # led["living_room"]>>_vars

\* An alert has completed, the next one is in progress during the loop's
\* wait, and further calls fill the queue.
C12_Witness ==
    /\ ConfirmedDone
    /\ frames # <<>>
    /\ Top.value
    /\ mpc = "sleep"
    /\ Len(queue) >= 2
====
